---- MODULE Spec2Model ----
(***************************************************************************)
(* lowell-core: inspection of a Unified Kernel Image (uki::inspect).       *)
(*                                                                         *)
(* The state is one call of inspect(): the file it is given (whether it    *)
(* can be read, its bytes, what goblin's PE parser makes of the bytes,     *)
(* what rs_release makes of the .osrel text), the call's position (pc),    *)
(* its local variables (loc), what it returned (result), and the history   *)
(* of the steps it has run (steps).                                        *)
(*                                                                         *)
(* Bytes are numbers 0..255, text is a sequence of Unicode code points.    *)
(* Option<T> is a sequence of length <= 1, Result<T> a record with ok.     *)
(* Section-table fields are u32 in goblin; the model keeps the width as    *)
(* U32Max and takes usize to be as wide (the narrowest target the crate    *)
(* builds for), which is where checked_add can overflow.                   *)
(***************************************************************************)
EXTENDS Integers, Sequences, FiniteSets, TLC

VARIABLES readable, data, pe, osrel_lib, pc, loc, steps, result

vars == <<readable, data, pe, osrel_lib, pc, loc, steps, result>>

input == <<readable, data, pe, osrel_lib>>

\* ------------------------------------------------------------------ bounds

U32Max == 15
MaxImg == 3
MaxCoord == 2
MaxText == 4
MaxCerts == 2
MaxTail == 1
MaxSect == 2

UsizeMax == U32Max

\* ------------------------------------------------------- Option and Result

None == <<>>
Some(x) == <<x>>
IsSome(o) == Len(o) = 1
Unwrap(o) == o[1]
unwrap_or_default(o) == IF IsSome(o) THEN Unwrap(o) ELSE <<>>

Ok(x) == [ok |-> TRUE, val |-> x]
Err(e) == [ok |-> FALSE, err |-> e]

\* anyhow errors, by the message the code builds
ErrRead == [msg |-> "read {path}", name |-> ""]
ErrNotPe == [msg |-> "not a valid PE/EFI image", name |-> ""]
ErrNoSection(name) == [msg |-> "no {name} section found in the UKI", name |-> name]
ErrNoLocation(name) == [msg |-> "Couldn't get {name} offset and size in the UKI", name |-> name]
ErrOsRelease == [msg |-> "rs_release parse error", name |-> ""]

\* ------------------------------------------------------------ formats::pe

\* What goblin finds in bytes that are no PE image: nothing but the verdict
Malformed ==
  [valid |-> FALSE, machine |-> 0, is_64 |-> FALSE, sections |-> <<>>, certificates |-> <<>>]

\* PE::parse_with_opts on self.data: the header view, or the context error
parse_pe == IF ~pe.valid THEN Err(ErrNotPe) ELSE Ok(pe)

COFF_MACHINE_X86_64 == 34404
COFF_MACHINE_ARM64 == 43620
COFF_MACHINE_ARM == 448
COFF_MACHINE_X86 == 332

\* faulty variant: a machine code outside the table is an error
arch_summary_strict ==
  IF ~parse_pe.ok THEN parse_pe
  ELSE LET p == parse_pe.val
       IN IF p.machine \in {COFF_MACHINE_X86_64, COFF_MACHINE_ARM64, COFF_MACHINE_ARM,
                            COFF_MACHINE_X86}
          THEN Ok(<<CASE p.machine = COFF_MACHINE_X86_64 -> "x86_64"
                      [] p.machine = COFF_MACHINE_ARM64 -> "aarch64"
                      [] p.machine = COFF_MACHINE_ARM -> "arm"
                      [] OTHER -> "i386",
                    p.is_64>>)
          ELSE Err(ErrNotPe)

arch_summary ==
  IF ~parse_pe.ok THEN parse_pe
  ELSE LET p == parse_pe.val
           arch == CASE p.machine = COFF_MACHINE_X86_64 -> "x86_64"
                     [] p.machine = COFF_MACHINE_ARM64 -> "aarch64"
                     [] p.machine = COFF_MACHINE_ARM -> "arm"
                     [] p.machine = COFF_MACHINE_X86 -> "i386"
                     [] OTHER -> "unknown"
       IN Ok(<<arch, p.is_64>>)

\* pe.sections.iter().find(|t| t.name().ok() == Some(name)): index of the first
\* entry whose decodable name equals name, 0 when there is none
RECURSIVE FindFrom(_, _, _)
FindFrom(sections, name, i) ==
  IF i > Len(sections) THEN 0
  ELSE IF sections[i].name = Some(name) THEN i
  ELSE FindFrom(sections, name, i + 1)

\* faulty variant: the last entry of that name is taken
find_last(sections, name) ==
  LET hits == {i \in 1..Len(sections) : sections[i].name = Some(name)}
  IN IF hits = {} THEN 0 ELSE CHOOSE i \in hits : \A j \in hits : j <= i

find(sections, name) == FindFrom(sections, name, 1)

\* usize::checked_add
checked_add(a, b) == IF a + b > UsizeMax THEN None ELSE Some(a + b)

\* <[u8]>::get(off..e)
SubBytes(bytes, off, e) == [i \in 1..(e - off) |-> bytes[off + i]]

\* faulty variant: the end of the range is clamped to the length of the buffer
slice_get_clamped(bytes, off, e) ==
  IF off > e \/ off > Len(bytes) THEN None
  ELSE Some(SubBytes(bytes, off, IF e > Len(bytes) THEN Len(bytes) ELSE e))

slice_get(bytes, off, e) ==
  IF off > e \/ e > Len(bytes) THEN None ELSE Some(SubBytes(bytes, off, e))

\* faulty variant: the coordinates are read from the last entry of that name
section_info_last_entry(name) ==
  IF ~parse_pe.ok THEN parse_pe
  ELSE LET secs == parse_pe.val.sections
           i == find_last(secs, name)
       IN IF i # 0
          THEN Ok(Some(<<secs[i].pointer_to_raw_data, secs[i].size_of_raw_data>>))
          ELSE Ok(None)

section_info(name) ==
  IF ~parse_pe.ok THEN parse_pe
  ELSE LET secs == parse_pe.val.sections
           i == find(secs, name)
       IN IF i # 0
          THEN Ok(Some(<<secs[i].pointer_to_raw_data, secs[i].size_of_raw_data>>))
          ELSE Ok(None)

\* faulty variant: invalid coordinates give an empty slice instead of None
section_bytes_empty_when_invalid(name) ==
  IF ~parse_pe.ok THEN parse_pe
  ELSE LET secs == parse_pe.val.sections
           i == find(secs, name)
       IN IF i # 0
          THEN LET off == secs[i].pointer_to_raw_data
                   sz == secs[i].size_of_raw_data
                   end == checked_add(off, sz)
                   got == IF IsSome(end) THEN slice_get(data, off, Unwrap(end)) ELSE None
               IN Ok(Some(unwrap_or_default(got)))
          ELSE Ok(None)

\* usize::try_from of a u32 field always succeeds on the targets of the crate
section_bytes(name) ==
  IF ~parse_pe.ok THEN parse_pe
  ELSE LET secs == parse_pe.val.sections
           i == find(secs, name)
       IN IF i # 0
          THEN LET off == secs[i].pointer_to_raw_data
                   sz == secs[i].size_of_raw_data
                   end == checked_add(off, sz)
               IN IF IsSome(end) THEN Ok(slice_get(data, off, Unwrap(end)))
                  ELSE Ok(None)
          ELSE Ok(None)

\* faulty variant: the text is not cut at the NUL
NulPosition_none(b) == Len(b)

\* b.iter().position(|&c| c == 0).unwrap_or(b.len()), as a count of bytes kept
RECURSIVE NulPosition(_)
NulPosition(b) ==
  IF b = <<>> THEN 0
  ELSE IF Head(b) = 0 THEN 0
  ELSE 1 + NulPosition(Tail(b))

REPLACEMENT_CHARACTER == 65533

\* String::from_utf8_lossy on bytes below 0xE0 and above 0xF4: ASCII is kept, a
\* two-byte sequence (C2..DF, 80..BF) is one code point, every other byte is
\* replaced by U+FFFD. The inputs hold no lead byte of a longer sequence.
RECURSIVE from_utf8_lossy(_)
from_utf8_lossy(b) ==
  IF b = <<>> THEN <<>>
  ELSE IF Head(b) < 128 THEN <<Head(b)>> \o from_utf8_lossy(Tail(b))
  ELSE IF /\ Head(b) \in 194..223
          /\ Len(b) >= 2
          /\ b[2] \in 128..191
       THEN <<(Head(b) - 192) * 64 + (b[2] - 128)>> \o from_utf8_lossy(Tail(Tail(b)))
  ELSE <<REPLACEMENT_CHARACTER>> \o from_utf8_lossy(Tail(b))

read_text(name) ==
  LET r == section_bytes(name)
  IN IF ~r.ok THEN r
     ELSE IF ~IsSome(r.val) THEN Ok(None)
     ELSE LET b == Unwrap(r.val)
              end == NulPosition(b)
          IN Ok(Some(from_utf8_lossy(SubSeq(b, 1, end))))

is_signed == IF ~parse_pe.ok THEN parse_pe ELSE Ok(parse_pe.val.certificates # <<>>)

certificate_metadata ==
  IF ~parse_pe.ok THEN parse_pe
  ELSE LET cs == parse_pe.val.certificates
       IN Ok([i \in 1..Len(cs) |-> <<cs[i].length, cs[i].revision, cs[i].certificate_type>>])

certificate_blobs ==
  IF ~parse_pe.ok THEN parse_pe
  ELSE LET cs == parse_pe.val.certificates
       IN Ok([i \in 1..Len(cs) |-> cs[i].certificate])

\* ---------------------------------------------------------- formats::osrel

OsKeys == {"PRETTY_NAME", "NAME", "ID", "VERSION_ID", "VERSION"}

\* rs_release::parse_os_release_str(text): the crate is outside this repository;
\* its verdict on the one text an inspection hands it is the input osrel_lib,
\* Err or a map (a key that is absent maps to None)
parse_os_release_str(text) == osrel_lib

or_else(a, b) == IF IsSome(a) THEN a ELSE b

read_os_release_from_str(text) ==
  LET r == parse_os_release_str(text)
  IN IF ~r.ok THEN r
     ELSE LET m == r.val
              name == or_else(m["PRETTY_NAME"], m["NAME"])
              id == m["ID"]
              version_id == m["VERSION_ID"]
          IN Ok(Some([name |-> name, id |-> id, version_id |-> version_id]))

\* faulty variant: NAME is preferred to PRETTY_NAME
read_os_release_name_first ==
  LET t == read_text(".osrel")
  IN IF ~t.ok THEN t
     ELSE IF ~IsSome(t.val) THEN Ok(None)
     ELSE LET r == parse_os_release_str(Unwrap(t.val))
          IN IF ~r.ok THEN r
             ELSE LET m == r.val
                      name == or_else(m["NAME"], m["PRETTY_NAME"])
                      id == m["ID"]
                      version_id == m["VERSION_ID"]
                  IN Ok(Some([name |-> name, id |-> id, version_id |-> version_id]))

read_os_release ==
  LET t == read_text(".osrel")
  IN IF ~t.ok THEN t
     ELSE IF ~IsSome(t.val) THEN Ok(None)
     ELSE LET r == parse_os_release_str(Unwrap(t.val))
          IN IF ~r.ok THEN r
             ELSE LET m == r.val
                      name == or_else(m["PRETTY_NAME"], m["NAME"])
                      id == m["ID"]
                      version_id == m["VERSION_ID"]
                  IN Ok(Some([name |-> name, id |-> id, version_id |-> version_id]))

\* ------------------------------------------------------ formats::initramfs

\* a slice pattern [m1, .., mk, ..]
StartsWith(bytes, magic) ==
  /\ Len(bytes) >= Len(magic)
  /\ \A i \in 1..Len(magic) : bytes[i] = magic[i]

\* faulty variant: the gzip arm looks at the first byte only
MatchArms_gzip_one_byte ==
  << [magic |-> <<31>>, kind |-> "Gzip"],
     [magic |-> <<253, 55, 122, 88, 90, 0>>, kind |-> "Xz"],
     [magic |-> <<40, 181, 47, 253>>, kind |-> "Zstd"],
     [magic |-> <<48, 55, 48, 55, 48, 49>>, kind |-> "Uncompressed"] >>

\* the arms of the match, in source order
MatchArms ==
  << [magic |-> <<31, 139>>, kind |-> "Gzip"],
     [magic |-> <<253, 55, 122, 88, 90, 0>>, kind |-> "Xz"],
     [magic |-> <<40, 181, 47, 253>>, kind |-> "Zstd"],
     [magic |-> <<48, 55, 48, 55, 48, 49>>, kind |-> "Uncompressed"] >>

\* a match takes the first arm whose pattern fits, the wildcard arm last
RECURSIVE FirstArm(_, _, _)
FirstArm(arms, bytes, i) ==
  IF i > Len(arms) THEN "Unknown"
  ELSE IF StartsWith(bytes, arms[i].magic) THEN arms[i].kind
  ELSE FirstArm(arms, bytes, i + 1)

detect(bytes) == FirstArm(MatchArms, bytes, 1)

\* ---------------------------------------------------------- inspect::ext

\* faulty variant: missing bytes are taken to be empty instead of an error
section_bytes_and_location_lenient(name) ==
  LET b == section_bytes(name)
  IN IF ~b.ok THEN b
     ELSE LET i == section_info(name)
          IN IF ~i.ok THEN i
             ELSE IF ~IsSome(i.val) THEN Err(ErrNoLocation(name))
             ELSE Ok(<<unwrap_or_default(b.val), Unwrap(i.val)>>)

section_bytes_and_location(name) ==
  LET b == section_bytes(name)
  IN IF ~b.ok THEN b
     ELSE IF ~IsSome(b.val) THEN Err(ErrNoSection(name))
     ELSE LET i == section_info(name)
          IN IF ~i.ok THEN i
             ELSE IF ~IsSome(i.val) THEN Err(ErrNoLocation(name))
             ELSE Ok(<<Unwrap(b.val), Unwrap(i.val)>>)

section_info_and_bytes(name) ==
  LET r == section_bytes_and_location(name)
  IN IF ~r.ok THEN r
     ELSE Ok(<<[offset |-> r.val[2][1], size |-> r.val[2][2], sha256 |-> <<>>],
               r.val[1]>>)

\* ----------------------------------------------------------- uki::inspect

\* char::is_whitespace: the code points with the White_Space property
WhiteSpace ==
  (9..13) \cup {32, 133, 160, 5760, 8232, 8233, 8239, 8287, 12288} \cup (8192..8202)

RECURSIVE trim_start(_)
trim_start(s) ==
  IF s = <<>> THEN <<>>
  ELSE IF Head(s) \in WhiteSpace THEN trim_start(Tail(s))
  ELSE s

RECURSIVE trim_end(_)
trim_end(s) ==
  IF s = <<>> THEN <<>>
  ELSE IF s[Len(s)] \in WhiteSpace THEN trim_end(SubSeq(s, 1, Len(s) - 1))
  ELSE s

\* str::trim
trim(s) == trim_end(trim_start(s))

\* Sha256::digest(bytes): the digest is the sha2 crate's, outside this
\* repository. The model keeps of it that it is OutputSize bytes fixed by the
\* hashed bytes alone and that no two inputs of the model collide: it stands
\* for it the length of the input, then its bytes, then zeros.
OutputSize == 32

Sha256_digest(bytes) ==
  [i \in 1..OutputSize |->
     IF i = 1 THEN Len(bytes) % 256
     ELSE IF i - 1 <= Len(bytes) THEN bytes[i - 1]
     ELSE 0]

LowerHexDigits ==
  <<"0", "1", "2", "3", "4", "5", "6", "7", "8", "9", "a", "b", "c", "d", "e", "f">>

\* faulty variant: a byte below 16 is written as one digit
LowerHexByte_unpadded(b) ==
  IF b < 16 THEN <<LowerHexDigits[b + 1]>>
  ELSE <<LowerHexDigits[(b \div 16) + 1], LowerHexDigits[(b % 16) + 1]>>

\* {:x} of one byte of the digest: two digits, the high nibble first
LowerHexByte(b) == <<LowerHexDigits[(b \div 16) + 1], LowerHexDigits[(b % 16) + 1]>>

\* {:x} of the digest: its bytes in order
RECURSIVE LowerHex(_)
LowerHex(d) ==
  IF d = <<>> THEN <<>> ELSE LowerHexByte(Head(d)) \o LowerHex(Tail(d))

\* format!("{:x}", Sha256::digest(bytes))
Sha256Hex(bytes) == LowerHex(Sha256_digest(bytes))

NoInfo == [offset |-> 0, size |-> 0, sha256 |-> <<>>]

\* the locals of inspect() before anything is assigned
NoLocals ==
  [arch |-> "", pe32p |-> FALSE, cmdline |-> <<>>, os_release |-> None,
   linux_info |-> NoInfo, linux_bytes |-> <<>>,
   initrd_info |-> NoInfo, initrd_bytes |-> <<>>, compression |-> "",
   cert_count |-> 0, has_signature |-> FALSE]

\* faulty variant: a missing .cmdline is an error
CmdlineStep_strict(l) ==
  LET t == read_text(".cmdline")
  IN IF ~t.ok THEN t
     ELSE IF ~IsSome(t.val) THEN Err(ErrNoSection(".cmdline"))
     ELSE Ok([l EXCEPT !.cmdline = trim(Unwrap(t.val))])

\* 3) cmdline
CmdlineStep(l) ==
  LET t == read_text(".cmdline")
  IN IF ~t.ok THEN t
     ELSE Ok([l EXCEPT !.cmdline = trim(unwrap_or_default(t.val))])

\* faulty variant: a parse error is swallowed and the call goes on without os_release
OsReleaseStep_swallow(l) ==
  LET r == read_os_release
  IN IF ~r.ok THEN Ok([l EXCEPT !.os_release = None])
     ELSE Ok([l EXCEPT !.os_release = r.val])

\* 3) os-release
OsReleaseStep(l) ==
  LET r == read_os_release
  IN IF ~r.ok THEN r ELSE Ok([l EXCEPT !.os_release = r.val])

\* 4) .linux: fetch
LinuxFetch(l) ==
  LET r == section_info_and_bytes(".linux")
  IN IF ~r.ok THEN r
     ELSE Ok([l EXCEPT !.linux_info = r.val[1], !.linux_bytes = r.val[2]])

\* 4) .linux: hash
LinuxHash(l) == [l EXCEPT !.linux_info.sha256 = Sha256Hex(l.linux_bytes)]

LinuxStep(l) ==
  LET f == LinuxFetch(l)
  IN IF ~f.ok THEN f ELSE Ok(LinuxHash(f.val))

\* 5) .initrd: fetch
InitrdFetch(l) ==
  LET r == section_info_and_bytes(".initrd")
  IN IF ~r.ok THEN r
     ELSE Ok([l EXCEPT !.initrd_info = r.val[1], !.initrd_bytes = r.val[2]])

\* faulty variant: the digest of .initrd is stored in the .linux descriptor
InitrdHash_into_linux(l) == [l EXCEPT !.linux_info.sha256 = Sha256Hex(l.initrd_bytes)]

\* 5) .initrd: hash
InitrdHash(l) == [l EXCEPT !.initrd_info.sha256 = Sha256Hex(l.initrd_bytes)]

\* 5) .initrd: detect
InitrdDetect(l) == [l EXCEPT !.compression = detect(l.initrd_bytes)]

InitrdStep(l) ==
  LET f == InitrdFetch(l)
  IN IF ~f.ok THEN f ELSE Ok(InitrdDetect(InitrdHash(f.val)))

\* faulty variant: only certificates that verify are counted
CertificatesStep_verified_only(l) ==
  IF ~parse_pe.ok THEN parse_pe
  ELSE LET cs == parse_pe.val.certificates
           n == Cardinality({i \in 1..Len(cs) : cs[i].verifies})
       IN Ok([l EXCEPT !.cert_count = n, !.has_signature = n > 0])

\* 6) certificates
CertificatesStep(l) ==
  LET r == certificate_blobs
  IN IF ~r.ok THEN r
     ELSE Ok([l EXCEPT !.cert_count = Len(r.val),
                       !.has_signature = Len(r.val) > 0])

MakeReport(l) ==
  [arch |-> l.arch,
   pe32_plus |-> l.pe32p,
   has_signature |-> l.has_signature,
   cert_count |-> l.cert_count,
   cmdline |-> l.cmdline,
   os_release |-> l.os_release,
   linux |-> l.linux_info,
   initrd |-> [section |-> l.initrd_info,
               compression |-> l.compression,
               entries_estimate |-> None]]

\* the ? operator: an Err ends the call with that error
Propagate(r, next) ==
  IF r.ok
  THEN /\ loc' = r.val
       /\ pc' = next
       /\ result' = result
  ELSE /\ loc' = loc
       /\ pc' = "failed"
       /\ result' = Some(Err(r.err))

ReadFile ==
  /\ pc = "read_file"
  /\ steps' = Append(steps, "read_file")
  /\ IF readable
     THEN pc' = "parse_pe" /\ result' = result
     ELSE pc' = "failed" /\ result' = Some(Err(ErrRead))
  /\ UNCHANGED <<input, loc>>

ParsePe ==
  /\ pc = "parse_pe"
  /\ steps' = Append(steps, "parse_pe")
  /\ LET r == arch_summary
     IN Propagate(IF r.ok THEN Ok([loc EXCEPT !.arch = r.val[1], !.pe32p = r.val[2]])
                  ELSE r,
                  "cmdline")
  /\ UNCHANGED input

Cmdline ==
  /\ pc = "cmdline"
  /\ steps' = Append(steps, "cmdline")
  /\ Propagate(CmdlineStep(loc), "os_release")
  /\ UNCHANGED input

\* faulty variant: the call goes on to .linux when the text is rejected
OsRelease_goes_on ==
  /\ pc = "os_release"
  /\ steps' = Append(steps, "os_release")
  /\ LET r == OsReleaseStep(loc)
     IN Propagate(IF r.ok THEN r ELSE Ok(loc), "linux")
  /\ UNCHANGED input

OsRelease ==
  /\ pc = "os_release"
  /\ steps' = Append(steps, "os_release")
  /\ Propagate(OsReleaseStep(loc), "linux")
  /\ UNCHANGED input

Linux ==
  /\ pc = "linux"
  /\ steps' = Append(steps, "linux")
  /\ Propagate(LinuxStep(loc), "initrd")
  /\ UNCHANGED input

Initrd ==
  /\ pc = "initrd"
  /\ steps' = Append(steps, "initrd")
  /\ Propagate(InitrdStep(loc), "certificates")
  /\ UNCHANGED input

Certificates ==
  /\ pc = "certificates"
  /\ steps' = Append(steps, "certificates")
  /\ Propagate(CertificatesStep(loc), "report")
  /\ UNCHANGED input

Return ==
  /\ pc = "report"
  /\ steps' = Append(steps, "report")
  /\ pc' = "done"
  /\ result' = Some(Ok(MakeReport(loc)))
  /\ UNCHANGED <<input, loc>>

Next ==
  \/ ReadFile
  \/ ParsePe
  \/ Cmdline
  \/ OsRelease
  \/ Linux
  \/ Initrd
  \/ Certificates
  \/ Return

\* ------------------------------------------------------------- the inputs
\* Init draws the file from families of images; each family varies one part
\* of a base image through a bounded set and keeps the rest.

SeqsUpTo(S, n) == UNION {[1..k -> S] : k \in 0..n}

Entry(name, off, sz) ==
  [name |-> name, pointer_to_raw_data |-> off, size_of_raw_data |-> sz]

\* at most one table entry for a section that may be absent
OptEntry(name, coords) ==
  IF IsSome(coords) THEN <<Entry(Some(name), coords[1][1], coords[1][2])>> ELSE <<>>

OptLen(o) == IF IsSome(o) THEN Len(Unwrap(o)) ELSE 0

\* the four sections laid out one after the other, absent ones left out
LayoutData(cmd, osr, lin, ird) ==
  unwrap_or_default(cmd) \o unwrap_or_default(osr) \o unwrap_or_default(lin)
    \o unwrap_or_default(ird)

LayoutSections(cmd, osr, lin, ird) ==
  (IF IsSome(cmd) THEN <<Entry(Some(".cmdline"), 0, OptLen(cmd))>> ELSE <<>>)
  \o (IF IsSome(osr) THEN <<Entry(Some(".osrel"), OptLen(cmd), OptLen(osr))>> ELSE <<>>)
  \o (IF IsSome(lin)
      THEN <<Entry(Some(".linux"), OptLen(cmd) + OptLen(osr), OptLen(lin))>> ELSE <<>>)
  \o (IF IsSome(ird)
      THEN <<Entry(Some(".initrd"), OptLen(cmd) + OptLen(osr) + OptLen(lin), OptLen(ird))>>
      ELSE <<>>)

Cert(verifies) ==
  [length |-> 9, revision |-> 512, certificate_type |-> 2,
   certificate |-> <<48>>, verifies |-> verifies]

Header(machine, is_64, sections, certs) ==
  [valid |-> TRUE, machine |-> machine, is_64 |-> is_64, sections |-> sections,
   certificates |-> certs]

OsMap(keys) ==
  [k \in OsKeys |-> IF k \in keys THEN Some(<<"value of", k>>) ELSE None]

BaseCmd == <<32, 97, 0, 98>>
BaseOsrel == <<79>>
BaseLinux == <<77, 90>>
BaseInitrd == <<31, 139, 8>>
BaseOsMap == Ok(OsMap({"PRETTY_NAME", "NAME", "ID", "VERSION_ID"}))

BaseData == LayoutData(Some(BaseCmd), Some(BaseOsrel), Some(BaseLinux), Some(BaseInitrd))
BaseSections ==
  LayoutSections(Some(BaseCmd), Some(BaseOsrel), Some(BaseLinux), Some(BaseInitrd))
BaseHeader == Header(COFF_MACHINE_X86_64, TRUE, BaseSections, <<>>)

Start ==
  /\ pc = "read_file"
  /\ loc = NoLocals
  /\ steps = <<>>
  /\ result = None

\* the file cannot be read, or its bytes are no PE image
InitBad ==
  /\ \/ readable = FALSE /\ data = <<>>
     \/ readable = TRUE /\ data \in {<<>>, BaseLinux, BaseData}
  /\ pe = Malformed
  /\ osrel_lib = BaseOsMap
  /\ Start

\* section tables: each section absent or at coordinates of its own; rs_release
\* may reject the .osrel text when there is any
Pattern == <<32, 97, 0, 31, 139>>
PatternData(n) == [i \in 1..n |-> Pattern[((i - 1) % Len(Pattern)) + 1]]

CoordVals == (0..MaxCoord) \cup {U32Max}
Coords == {None} \cup {Some(<<o, z>>) : o \in CoordVals, z \in CoordVals}
OptCoords(n) == {None, Some(<<0, n>>), Some(<<0, n + 1>>), Some(<<U32Max, 1>>)}

InitTables ==
  \E n \in 0..MaxImg, lin \in Coords, ird \in Coords :
    \E cmd \in OptCoords(n), osr \in OptCoords(n) :
      /\ readable = TRUE
      /\ data = PatternData(n)
      /\ pe = Header(COFF_MACHINE_ARM64, TRUE,
                     OptEntry(".cmdline", cmd) \o OptEntry(".osrel", osr)
                       \o OptEntry(".linux", lin) \o OptEntry(".initrd", ird),
                     <<>>)
      /\ osrel_lib \in IF osr = Some(<<0, n>>) /\ trim(from_utf8_lossy(PatternData(n))) # <<>>
                        THEN {Err(ErrOsRelease), Ok(OsMap({}))} ELSE {Ok(OsMap({}))}
      /\ Start

\* one more entry somewhere in the table of the base image
\* the names inspect looks up, another section, and names one character away
\* from ".linux"
SectionNames ==
  {".cmdline", ".osrel", ".linux", ".initrd", ".sbat", ".Linux", ".linu", ".linuxx"}
EntryNames == {Some(x) : x \in SectionNames} \cup {None}

InsertAt(s, i, e) == SubSeq(s, 1, i) \o <<e>> \o SubSeq(s, i + 1, Len(s))

InitExtraEntry ==
  \E i \in 0..Len(BaseSections), nm \in EntryNames, o \in CoordVals, z \in CoordVals :
    /\ readable = TRUE
    /\ data = BaseData
    /\ pe = Header(COFF_MACHINE_X86_64, TRUE, InsertAt(BaseSections, i, Entry(nm, o, z)), <<>>)
    /\ osrel_lib = BaseOsMap
    /\ Start

\* the bytes of .cmdline
TextBytes == {0, 32, 97, 160, 194, 255}

InitCmdline ==
  \E cmd \in SeqsUpTo(TextBytes, MaxText) :
    /\ readable = TRUE
    /\ data = LayoutData(Some(cmd), None, Some(BaseLinux), Some(BaseInitrd))
    /\ pe = Header(COFF_MACHINE_X86_64, TRUE,
                   LayoutSections(Some(cmd), None, Some(BaseLinux), Some(BaseInitrd)), <<>>)
    /\ osrel_lib = BaseOsMap
    /\ Start

\* the bytes of .initrd: every magic cut short, with one byte changed, and with
\* bytes after it; and every short sequence of the bytes the magics are made of
Magics == {MatchArms[i].magic : i \in 1..Len(MatchArms)}
MagicBytes == UNION {{m[i] : i \in 1..Len(m)} : m \in Magics} \cup {0, 1}

Prefixes == UNION {{SubSeq(m, 1, k) : k \in 0..Len(m)} : m \in Magics}
OneChanged(p) == {[p EXCEPT ![j] = c] : j \in 1..Len(p), c \in MagicBytes}

InitrdInputs ==
  SeqsUpTo(MagicBytes, 2)
  \cup {p \o t : p \in Prefixes, t \in SeqsUpTo({0, 139}, MaxTail)}
  \cup {q \o t : q \in UNION {OneChanged(p) : p \in Prefixes}, t \in SeqsUpTo({0}, MaxTail)}

InitInitrd ==
  \E ird \in InitrdInputs :
    /\ readable = TRUE
    /\ data = LayoutData(Some(BaseCmd), None, Some(BaseLinux), Some(ird))
    /\ pe = Header(COFF_MACHINE_X86_64, TRUE,
                   LayoutSections(Some(BaseCmd), None, Some(BaseLinux), Some(ird)), <<>>)
    /\ osrel_lib = BaseOsMap
    /\ Start

\* what rs_release makes of the .osrel text
InitOsRelease ==
  \E v \in {Err(ErrOsRelease)} \cup {Ok(OsMap(ks)) : ks \in SUBSET OsKeys} :
    /\ readable = TRUE
    /\ data = BaseData
    /\ pe = BaseHeader
    /\ osrel_lib = v
    /\ Start

\* the machine, the word size and the certificate table
Machines ==
  {COFF_MACHINE_X86_64, COFF_MACHINE_ARM64, COFF_MACHINE_ARM, COFF_MACHINE_X86, 20580, 0}

InitHeader ==
  \E m \in Machines, w \in BOOLEAN, vs \in SeqsUpTo(BOOLEAN, MaxCerts) :
    /\ readable = TRUE
    /\ data = BaseData
    /\ pe = Header(m, w, BaseSections, [i \in 1..Len(vs) |-> Cert(vs[i])])
    /\ osrel_lib = BaseOsMap
    /\ Start

\* the bytes of .linux and .initrd: equal, or different, at offsets of their own
DigestBytes == {0, 10, 171}

InitDigest ==
  \E lin \in SeqsUpTo(DigestBytes, MaxSect), ird \in SeqsUpTo(DigestBytes, MaxSect) :
    /\ readable = TRUE
    /\ data = LayoutData(None, None, Some(lin), Some(ird))
    /\ pe = Header(COFF_MACHINE_X86_64, TRUE,
                   LayoutSections(None, None, Some(lin), Some(ird)), <<>>)
    /\ osrel_lib = BaseOsMap
    /\ Start

Init ==
  \/ InitBad
  \/ InitTables
  \/ InitExtraEntry
  \/ InitCmdline
  \/ InitInitrd
  \/ InitOsRelease
  \/ InitHeader
  \/ InitDigest

Spec == Init /\ [][Next]_vars

\* ------------------------------------------------------------- properties
\* What the properties say about the file is read off the inputs, not through
\* the operators above.

Order ==
  <<"read_file", "parse_pe", "cmdline", "os_release", "linux", "initrd",
    "certificates", "report">>

Finished == pc \in {"done", "failed"}
Returned == pc = "done" /\ result # None /\ result[1].ok
Failed == pc = "failed" /\ result # None /\ ~result[1].ok

Ran(step) == \E i \in 1..Len(steps) : steps[i] = step
FailedIn(step) == Failed /\ steps # <<>> /\ steps[Len(steps)] = step
\* the step has run and the call went on
Passed(step) == Ran(step) /\ ~FailedIn(step)

ParsedImage == readable /\ pe.valid

HasEntry(name) == \E i \in 1..Len(pe.sections) : pe.sections[i].name = <<name>>
FirstEntry(name) ==
  pe.sections[CHOOSE i \in 1..Len(pe.sections) :
                /\ pe.sections[i].name = <<name>>
                /\ \A j \in 1..(i - 1) : pe.sections[j].name # <<name>>]
EntryStart(name) == FirstEntry(name).pointer_to_raw_data
EntryEnd(name) == FirstEntry(name).pointer_to_raw_data + FirstEntry(name).size_of_raw_data

\* the table has the section and its range lies in the file
InFile(name) == HasEntry(name) /\ EntryEnd(name) <= Len(data)
\* the table has the section and its range does not lie in the file
OutOfFile(name) == HasEntry(name) /\ EntryEnd(name) > Len(data)
FileBytes(name) == [i \in 1..FirstEntry(name).size_of_raw_data |-> data[EntryStart(name) + i]]

\* rs_release rejects the text of the .osrel section
OsrelRejected == InFile(".osrel") /\ ~osrel_lib.ok

\* C1 as stated: headers parse and the table has no .linux: the call fails with
\* the error of the missing section .linux and returns no Report; the same for
\* .initrd when the table has .linux and not .initrd.
C1_AsStated ==
  (Finished /\ ParsedImage) =>
    /\ ~HasEntry(".linux") => (Failed /\ result[1].err = ErrNoSection(".linux"))
    /\ (HasEntry(".linux") /\ ~HasEntry(".initrd")) =>
         (Failed /\ result[1].err = ErrNoSection(".initrd"))

\* C1 amended: headers parse, rs_release does not reject the .osrel text and the
\* table has no .linux: the call fails with the error of the missing section
\* .linux and returns no Report; the same for .initrd when .linux is in the table
\* with its range in the file and .initrd is not in the table.
C1_MissingRequiredSection ==
  (Finished /\ ParsedImage /\ ~OsrelRejected) =>
    /\ ~HasEntry(".linux") =>
         (Failed /\ result[1].err = ErrNoSection(".linux") /\ ~Ran("report"))
    /\ (InFile(".linux") /\ ~HasEntry(".initrd")) =>
         (Failed /\ result[1].err = ErrNoSection(".initrd") /\ ~Ran("report"))

C1_Witness ==
  /\ Failed /\ ParsedImage
  /\ InFile(".osrel") /\ osrel_lib.ok
  /\ InFile(".linux") /\ ~HasEntry(".initrd")
  /\ result[1].err = ErrNoSection(".initrd")

\* C2 as stated: a section that inspect reads and whose range exceeds the file
\* makes the call fail with an error for that section that is not the error of
\* a missing section; no Report.
C2_AsStated ==
  \A step \in {"cmdline", "os_release", "linux", "initrd"} :
    LET name == CASE step = "cmdline" -> ".cmdline"
                  [] step = "os_release" -> ".osrel"
                  [] step = "linux" -> ".linux"
                  [] step = "initrd" -> ".initrd"
    IN (ParsedImage /\ Ran(step) /\ OutOfFile(name)) =>
         /\ FailedIn(step)
         /\ result[1].err.name = name
         /\ result[1].err # ErrNoSection(name)

\* C2 amended: a section whose range exceeds the file yields no bytes and is
\* never clamped: for .cmdline and .osrel it is handled as an absent section
\* (cmdline empty, os_release None, the call goes on); for .linux and .initrd
\* the call fails with the same error as for a missing section, no Report.
C2_OutOfRangeIsAbsent ==
  ParsedImage =>
    /\ (Ran("cmdline") /\ OutOfFile(".cmdline")) =>
         (Passed("cmdline") /\ loc.cmdline = <<>>)
    /\ (Ran("os_release") /\ OutOfFile(".osrel")) =>
         (Passed("os_release") /\ loc.os_release = None)
    /\ (Ran("linux") /\ OutOfFile(".linux")) =>
         (FailedIn("linux") /\ result[1].err = ErrNoSection(".linux"))
    /\ (Ran("initrd") /\ OutOfFile(".initrd")) =>
         (FailedIn("initrd") /\ result[1].err = ErrNoSection(".initrd"))
    /\ (Returned /\ OutOfFile(".cmdline")) => result[1].val.cmdline = <<>>
    /\ (Returned /\ OutOfFile(".osrel")) => result[1].val.os_release = None

C2_Witness ==
  /\ Returned
  /\ OutOfFile(".cmdline") /\ EntryStart(".cmdline") < Len(data)
  /\ OutOfFile(".osrel")
  /\ result[1].val.cmdline = <<>>
  /\ result[1].val.os_release = None

\* C3: in every Report both section descriptors lie in the file:
\* offset + size <= length of the image, the sum taken in the integers.
C3_DescriptorsInFile ==
  Returned =>
    /\ result[1].val.linux.offset + result[1].val.linux.size <= Len(data)
    /\ result[1].val.initrd.section.offset + result[1].val.initrd.section.size <= Len(data)

C3_Witness ==
  /\ Returned
  /\ result[1].val.linux.size > 0
  /\ result[1].val.initrd.section.offset + result[1].val.initrd.section.size = Len(data)
  /\ \E i \in 1..Len(pe.sections) :
       pe.sections[i].pointer_to_raw_data + pe.sections[i].size_of_raw_data > UsizeMax

HasPrefix(b, m) == Len(b) >= Len(m) /\ SubSeq(b, 1, Len(m)) = m

GzipMagic == <<31, 139>>
XzMagic == <<253, 55, 122, 88, 90, 0>>
ZstdMagic == <<40, 181, 47, 253>>
NewcMagic == <<48, 55, 48, 55, 48, 49>>

ArmOrders == {p \in [1..Len(MatchArms) -> 1..Len(MatchArms)] :
                \A i, j \in 1..Len(MatchArms) : p[i] = p[j] => i = j}

\* C4: detect gives every byte sequence exactly one kind: Gzip iff it starts
\* with 1F 8B, Xz iff with FD 37 7A 58 5A 00, Zstd iff with 28 B5 2F FD,
\* Uncompressed iff with ASCII 070701, Unknown otherwise (empty and cut-short
\* sequences too), whatever the order in which the four magics are tried.
C4_DetectTable ==
  (ParsedImage /\ Passed("initrd")) =>
    LET b == FileBytes(".initrd")
        c == loc.compression
    IN /\ c \in {"Gzip", "Xz", "Zstd", "Uncompressed", "Unknown"}
       /\ (c = "Gzip") <=> HasPrefix(b, GzipMagic)
       /\ (c = "Xz") <=> HasPrefix(b, XzMagic)
       /\ (c = "Zstd") <=> HasPrefix(b, ZstdMagic)
       /\ (c = "Uncompressed") <=> HasPrefix(b, NewcMagic)
       /\ (c = "Unknown") <=>
            ~\E m \in {GzipMagic, XzMagic, ZstdMagic, NewcMagic} : HasPrefix(b, m)
       /\ \A p \in ArmOrders :
            FirstArm([i \in 1..Len(MatchArms) |-> MatchArms[p[i]]], b, 1) = c
       /\ Returned => result[1].val.initrd.compression = c

C4_Witness ==
  /\ Returned
  /\ FileBytes(".initrd") = SubSeq(XzMagic, 1, 5)
  /\ result[1].val.initrd.compression = "Unknown"

\* C5 as stated: headers parse, .linux and .initrd are readable: without
\* .cmdline a Report with an empty cmdline is returned, without .osrel a Report
\* with os_release None.
C5_AsStated ==
  (Finished /\ ParsedImage /\ InFile(".linux") /\ InFile(".initrd")) =>
    /\ ~HasEntry(".cmdline") => (Returned /\ result[1].val.cmdline = <<>>)
    /\ ~HasEntry(".osrel") => (Returned /\ result[1].val.os_release = None)

\* C5 amended: headers parse, .linux and .initrd are readable: without .cmdline,
\* and unless rs_release rejects the text of a present .osrel, a Report with an
\* empty cmdline is returned; without .osrel a Report with os_release None.
C5_OptionalSectionsAbsent ==
  (Finished /\ ParsedImage /\ InFile(".linux") /\ InFile(".initrd")) =>
    /\ (~HasEntry(".cmdline") /\ ~OsrelRejected) =>
         (Returned /\ result[1].val.cmdline = <<>>)
    /\ ~HasEntry(".osrel") => (Returned /\ result[1].val.os_release = None)

C5_Witness ==
  /\ Returned
  /\ ~HasEntry(".cmdline") /\ ~HasEntry(".osrel")
  /\ result[1].val.cmdline = <<>>
  /\ result[1].val.os_release = None
  /\ result[1].val.linux.size > 0

\* C6: the record derived from the parsed map has name = the value of
\* PRETTY_NAME when present, else that of NAME, else none; id = the value of ID,
\* version_id = that of VERSION_ID, none when the key is absent; and
\* read_os_release_from_str derives the same record from the same text.
C6_OsReleaseFields ==
  (ParsedImage /\ Passed("os_release") /\ InFile(".osrel")) =>
    LET m == osrel_lib.val
        o == loc.os_release
        text == from_utf8_lossy(SubSeq(FileBytes(".osrel"), 1, NulPosition(FileBytes(".osrel"))))
    IN /\ osrel_lib.ok
       /\ o # None
       /\ o[1].name = (IF m["PRETTY_NAME"] # None THEN m["PRETTY_NAME"]
                       ELSE IF m["NAME"] # None THEN m["NAME"] ELSE None)
       /\ o[1].id = m["ID"]
       /\ o[1].version_id = m["VERSION_ID"]
       /\ read_os_release_from_str(text) = Ok(o)
       /\ Returned => result[1].val.os_release = o

C6_Witness ==
  /\ Returned
  /\ osrel_lib.ok
  /\ osrel_lib.val["PRETTY_NAME"] = None /\ osrel_lib.val["NAME"] # None
  /\ osrel_lib.val["ID"] = None /\ osrel_lib.val["VERSION"] # None
  /\ result[1].val.os_release # None
  /\ result[1].val.os_release[1].name = osrel_lib.val["NAME"]

\* C7: in every Report has_signature is true exactly when the certificate table
\* is not empty, cert_count is the number of its certificates, has_signature
\* <=> cert_count > 0, as is_signed says; whether a certificate verifies plays
\* no part.
C7_SignaturePresence ==
  Returned =>
    LET r == result[1].val
    IN /\ r.has_signature <=> (pe.certificates # <<>>)
       /\ r.cert_count = Len(pe.certificates)
       /\ r.has_signature <=> (r.cert_count > 0)
       /\ is_signed = Ok(r.has_signature)

C7_Witness ==
  /\ Returned
  /\ Len(pe.certificates) = 2
  /\ \A i \in 1..Len(pe.certificates) : ~pe.certificates[i].verifies
  /\ result[1].val.has_signature
  /\ result[1].val.cert_count = 2

\* the bytes before the first NUL, all of them when there is none
BeforeNul(b) ==
  IF \E i \in 1..Len(b) : b[i] = 0
  THEN SubSeq(b, 1, (CHOOSE i \in 1..Len(b) : b[i] = 0 /\ \A j \in 1..(i - 1) : b[j] # 0) - 1)
  ELSE b

\* C8: the cmdline of the Report is trim(lossy decoding of the bytes of .cmdline
\* before its first NUL): later bytes play no part, bytes that are not UTF-8
\* are no error, and the text neither starts nor ends with whitespace.
C8_CmdlineText ==
  (ParsedImage /\ Ran("cmdline")) =>
    /\ ~FailedIn("cmdline")
    /\ InFile(".cmdline") =>
         LET t == loc.cmdline
         IN /\ t = trim(from_utf8_lossy(BeforeNul(FileBytes(".cmdline"))))
            /\ \A i \in 1..Len(t) : t[i] # 0
            /\ t # <<>> => (t[1] \notin WhiteSpace /\ t[Len(t)] \notin WhiteSpace)
            /\ t = trim(t)
    /\ Returned => result[1].val.cmdline = loc.cmdline

C8_Witness ==
  /\ Returned
  /\ InFile(".cmdline")
  /\ FileBytes(".cmdline") = <<32, 255, 0, 97>>
  /\ result[1].val.cmdline = <<REPLACEMENT_CHARACTER>>

\* what makes each step fail, and with which error
StepFails(step) ==
  CASE step = "read_file" -> ~readable
    [] step = "parse_pe" -> ~pe.valid
    [] step = "os_release" -> OsrelRejected
    [] step = "linux" -> ~InFile(".linux")
    [] step = "initrd" -> ~InFile(".initrd")
    [] OTHER -> FALSE

StepError(step) ==
  CASE step = "read_file" -> ErrRead
    [] step = "parse_pe" -> ErrNotPe
    [] step = "os_release" -> ErrOsRelease
    [] step = "linux" -> ErrNoSection(".linux")
    [] step = "initrd" -> ErrNoSection(".initrd")

FirstFailing ==
  LET failing == {i \in 1..Len(Order) : StepFails(Order[i])}
  IN IF failing = {} THEN 0 ELSE CHOOSE i \in failing : \A j \in failing : i <= j

\* C9: the steps run in the order file read, PE header parse, .cmdline, .osrel,
\* .linux, .initrd, certificates; the first step that fails ends the call with
\* that step's error, no later step runs and no Report is returned; a Report is
\* returned only when every step succeeded.
C9_FirstFailureEnds ==
  /\ Len(steps) <= Len(Order)
  /\ steps = SubSeq(Order, 1, Len(steps))
  /\ ~Finished =>
       /\ result = None
       /\ pc = Order[Len(steps) + 1]
       /\ FirstFailing = 0 \/ FirstFailing > Len(steps)
  /\ pc = "failed" =>
       /\ FirstFailing # 0
       /\ Len(steps) = FirstFailing
       /\ result = Some(Err(StepError(Order[FirstFailing])))
  /\ pc = "done" =>
       /\ FirstFailing = 0
       /\ steps = Order
       /\ Returned

C9_Witness ==
  /\ FailedIn("os_release")
  /\ ~HasEntry(".linux") /\ OutOfFile(".initrd")
  /\ result = Some(Err(ErrOsRelease))
  /\ steps = SubSeq(Order, 1, 4)

\* the two computations as tasks of operations, run by a schedule that says
\* whose operation comes next
RECURSIVE RunSchedule(_, _, _, _)
RunSchedule(l, sched, nl, ni) ==
  IF sched = <<>> THEN l
  ELSE IF Head(sched) = "linux"
       THEN RunSchedule(IF nl = 0 THEN LinuxFetch(l).val ELSE LinuxHash(l),
                        Tail(sched), nl + 1, ni)
       ELSE RunSchedule(CASE ni = 0 -> InitrdFetch(l).val
                          [] ni = 1 -> InitrdHash(l)
                          [] OTHER -> InitrdDetect(l),
                        Tail(sched), nl, ni + 1)

Schedules ==
  {s \in [1..5 -> {"linux", "initrd"}] : Cardinality({i \in 1..5 : s[i] = "linux"}) = 2}

\* a step of either computation leaves the image as it is
ImageKept == (pc \in {"linux", "initrd"}) => (data' = data /\ pe' = pe)

\* C10: when the inspection succeeds, the .linux digest and the .initrd digest
\* and compression computed in either order, or interleaved, give the same
\* Report; the two computations assign different fields and the image is not
\* written.
C10_OrderIndependent ==
  /\ [](( /\ pc = "linux"
          /\ LinuxStep(loc).ok
          /\ InitrdStep(loc).ok ) =>
         LET code == InitrdStep(LinuxStep(loc).val).val
         IN /\ LinuxStep(InitrdStep(loc).val) = Ok(code)
            /\ \A s \in Schedules :
                 /\ RunSchedule(loc, s, 0, 0) = code
                 /\ MakeReport(CertificatesStep(RunSchedule(loc, s, 0, 0)).val)
                      = MakeReport(CertificatesStep(code).val)
            /\ \A f \in DOMAIN loc :
                 LinuxStep(loc).val[f] = loc[f] \/ InitrdStep(loc).val[f] = loc[f])
  /\ [][ImageKept]_vars

C10_Witness ==
  /\ Returned
  /\ result[1].val.linux.sha256 # result[1].val.initrd.section.sha256
  /\ result[1].val.linux.size > 0
  /\ result[1].val.initrd.section.size > 0
  /\ EntryStart(".linux") < EntryStart(".initrd")
  /\ EntryStart(".initrd") < EntryEnd(".linux")

\* the label of a machine-type code, by the numbers of the PE format:
\* 0x8664, 0xAA64, 0x01C0, 0x014C
MachineLabel(code) ==
  IF code = 34404 THEN "x86_64"
  ELSE IF code = 43620 THEN "aarch64"
  ELSE IF code = 448 THEN "arm"
  ELSE IF code = 332 THEN "i386"
  ELSE "unknown"

\* C11: when the headers parse, the header step succeeds whatever the
\* machine-type code is, and the label is x86_64, aarch64, arm or i386 for their
\* four codes and unknown for every other code; the Report carries that label
\* and the word size of the header, and a code outside the table never ends the
\* inspection.
C11_ArchTable ==
  (ParsedImage /\ Ran("parse_pe")) =>
    /\ ~FailedIn("parse_pe")
    /\ arch_summary = Ok(<<MachineLabel(pe.machine), pe.is_64>>)
    /\ loc.arch = MachineLabel(pe.machine)
    /\ loc.arch \in {"x86_64", "aarch64", "arm", "i386", "unknown"}
    /\ loc.pe32p = pe.is_64
    /\ Returned => (result[1].val.arch = loc.arch /\ result[1].val.pe32_plus = pe.is_64)
    /\ (Finished /\ FirstFailing = 0) => Returned

C11_Witness ==
  /\ Returned
  /\ pe.machine = 20580
  /\ ~pe.is_64
  /\ result[1].val.arch = "unknown"

LowerHexChars == {LowerHexDigits[i] : i \in 1..Len(LowerHexDigits)}

\* the value of a hexadecimal digit, by the alphabet 0-9 a-f
HexValue(ch) == (CHOOSE i \in 1..16 : LowerHexDigits[i] = ch) - 1

\* the text is 64 lowercase hexadecimal digits that spell, two digits a byte,
\* the digest of the bytes
IsDigestOf(text, bytes) ==
  /\ Len(text) = 64
  /\ \A i \in 1..Len(text) : text[i] \in LowerHexChars
  /\ \A i \in 1..32 :
       16 * HexValue(text[2 * i - 1]) + HexValue(text[2 * i]) = Sha256_digest(bytes)[i]

\* C12: in every Report the sha256 of .linux and that of .initrd are each 64
\* lowercase hexadecimal characters, the digest of the bytes of that section and
\* of nothing else: the offset, the other section and the rest of the image
\* play no part, and two sections with the same bytes have the same text.
C12_DigestText ==
  Returned =>
    LET l == result[1].val.linux
        i == result[1].val.initrd.section
    IN /\ IsDigestOf(l.sha256, FileBytes(".linux"))
       /\ IsDigestOf(i.sha256, FileBytes(".initrd"))
       /\ FileBytes(".linux") = FileBytes(".initrd") => l.sha256 = i.sha256
       /\ l.sha256 = Sha256Hex(FileBytes(".linux"))
       /\ i.sha256 = Sha256Hex(FileBytes(".initrd"))

C12_Witness ==
  /\ Returned
  /\ FileBytes(".linux") = <<10, 171>>
  /\ FileBytes(".initrd") = <<10, 171>>
  /\ EntryStart(".linux") # EntryStart(".initrd")
  /\ result[1].val.linux.sha256 = result[1].val.initrd.section.sha256
  /\ SubSeq(result[1].val.linux.sha256, 1, 6) = <<"0", "2", "0", "a", "a", "b">>

\* the entries of the table that carry the name
EntriesNamed(name) == {i \in 1..Len(pe.sections) : pe.sections[i].name = <<name>>}

\* the call is at a step that looks a section up
LooksUp == pc \in {"cmdline", "os_release", "linux", "initrd"}

\* C13: a lookup by name (section_info, section_bytes, read_text) takes the
\* first entry of the table whose name is exactly that name, however many
\* entries carry it; an entry whose name differs by a character or cannot be
\* decoded is never taken; entries of the same name are no error, and the
\* Report describes the first .linux and the first .initrd.
C13_FirstMatchWins ==
  ParsedImage =>
    /\ LooksUp => \A name \in SectionNames :
         /\ section_info(name) =
              Ok(IF HasEntry(name)
                 THEN Some(<<FirstEntry(name).pointer_to_raw_data,
                             FirstEntry(name).size_of_raw_data>>)
                 ELSE None)
         /\ section_bytes(name) = Ok(IF InFile(name) THEN Some(FileBytes(name)) ELSE None)
         /\ read_text(name) =
              Ok(IF InFile(name) THEN Some(from_utf8_lossy(BeforeNul(FileBytes(name))))
                 ELSE None)
    /\ Passed("linux") =>
         /\ loc.linux_info.offset = FirstEntry(".linux").pointer_to_raw_data
         /\ loc.linux_info.size = FirstEntry(".linux").size_of_raw_data
         /\ loc.linux_bytes = FileBytes(".linux")
    /\ Passed("initrd") =>
         /\ loc.initrd_info.offset = FirstEntry(".initrd").pointer_to_raw_data
         /\ loc.initrd_info.size = FirstEntry(".initrd").size_of_raw_data
         /\ loc.initrd_bytes = FileBytes(".initrd")
    /\ Passed("cmdline") /\ InFile(".cmdline") =>
         loc.cmdline = trim(from_utf8_lossy(BeforeNul(FileBytes(".cmdline"))))
    /\ Returned =>
         /\ result[1].val.linux.offset = FirstEntry(".linux").pointer_to_raw_data
         /\ result[1].val.linux.size = FirstEntry(".linux").size_of_raw_data
         /\ result[1].val.initrd.section.offset = FirstEntry(".initrd").pointer_to_raw_data
         /\ result[1].val.initrd.section.size = FirstEntry(".initrd").size_of_raw_data
    /\ (Finished /\ FirstFailing = 0) => Returned

C13_Witness ==
  /\ Returned
  /\ Cardinality(EntriesNamed(".linux")) = 2
  /\ \E i, j \in EntriesNamed(".linux") :
       /\ i < j
       /\ pe.sections[i].pointer_to_raw_data # pe.sections[j].pointer_to_raw_data
       /\ pe.sections[i].size_of_raw_data # pe.sections[j].size_of_raw_data
       /\ pe.sections[j].pointer_to_raw_data + pe.sections[j].size_of_raw_data <= Len(data)
       /\ result[1].val.linux.offset = pe.sections[i].pointer_to_raw_data
       /\ result[1].val.linux.size = pe.sections[i].size_of_raw_data
       /\ result[1].val.linux.size > 0

\* the bytes of the image in [offset, offset + size)
ImageRange(offset, size) == [k \in 1..size |-> data[offset + k]]

\* the descriptor and the bytes are those of one entry of the table
SameEntry(name, info, bytes) ==
  /\ info.offset + info.size <= Len(data)
  /\ info.size = Len(bytes)
  /\ bytes = ImageRange(info.offset, info.size)
  /\ \E i \in EntriesNamed(name) :
       /\ pe.sections[i].pointer_to_raw_data = info.offset
       /\ pe.sections[i].size_of_raw_data = info.size
       /\ \A j \in EntriesNamed(name) : i <= j

\* C14: for .linux and for .initrd, the offset and size reported and the bytes
\* hashed and classified are those of one entry of the table: the size is the
\* number of bytes hashed, the bytes are image[offset .. offset+size), the
\* digest and the compression are computed from them; the lookup of the
\* coordinates never fails after the lookup of the bytes succeeded.
C14_InfoMatchesBytes ==
  /\ (ParsedImage /\ Passed("linux")) =>
       /\ SameEntry(".linux", loc.linux_info, loc.linux_bytes)
       /\ loc.linux_info.sha256 =
            Sha256Hex(ImageRange(loc.linux_info.offset, loc.linux_info.size))
  /\ (ParsedImage /\ Passed("initrd")) =>
       /\ SameEntry(".initrd", loc.initrd_info, loc.initrd_bytes)
       /\ loc.initrd_info.sha256 =
            Sha256Hex(ImageRange(loc.initrd_info.offset, loc.initrd_info.size))
       /\ (loc.compression = "Gzip") <=>
            HasPrefix(ImageRange(loc.initrd_info.offset, loc.initrd_info.size), GzipMagic)
  /\ Returned =>
       /\ result[1].val.linux = loc.linux_info
       /\ result[1].val.initrd.section = loc.initrd_info
       /\ result[1].val.initrd.compression = loc.compression
  /\ \A name \in SectionNames :
       /\ (ParsedImage /\ LooksUp) =>
            (section_bytes(name).val # None => section_info(name).val # None)
       /\ Failed => result[1].err # ErrNoLocation(name)

C14_Witness ==
  /\ Returned
  /\ Cardinality(EntriesNamed(".initrd")) = 2
  /\ \E i, j \in EntriesNamed(".initrd") :
       /\ i < j
       /\ pe.sections[j].pointer_to_raw_data < pe.sections[i].pointer_to_raw_data
       /\ pe.sections[j].size_of_raw_data < pe.sections[i].size_of_raw_data
       /\ pe.sections[j].size_of_raw_data > 0
       /\ result[1].val.initrd.section.offset = pe.sections[i].pointer_to_raw_data
       /\ result[1].val.initrd.section.size = Len(loc.initrd_bytes)
  /\ result[1].val.initrd.compression = "Gzip"

NoFields == [name |-> None, id |-> None, version_id |-> None]

\* C15: when .osrel is in the table with its range in the file and rs_release
\* rejects its text, the call ends at the os-release step with the parser's
\* error: no Report, and .linux and .initrd are not read. When the step
\* succeeds, os_release is None exactly when .osrel gave no bytes (not in the
\* table, or its range not in the file), and Some when the text parsed, with
\* its three fields absent when the map has none of their keys; a section of
\* zero bytes is parsed like any other.
C15_OsReleaseOutcome ==
  (ParsedImage /\ Ran("os_release")) =>
    /\ OsrelRejected =>
         /\ FailedIn("os_release")
         /\ result = Some(Err(osrel_lib.err))
         /\ ~Ran("linux") /\ ~Ran("initrd") /\ ~Ran("report")
         /\ loc.linux_info = NoInfo /\ loc.initrd_info = NoInfo
    /\ ~OsrelRejected =>
         /\ Passed("os_release")
         /\ (loc.os_release = None) <=> ~InFile(".osrel")
         /\ InFile(".osrel") =>
              /\ osrel_lib.ok
              /\ Len(loc.os_release) = 1
              /\ (\A k \in {"PRETTY_NAME", "NAME", "ID", "VERSION_ID"} :
                     osrel_lib.val[k] = None) => loc.os_release = <<NoFields>>
    /\ Returned =>
         /\ result[1].val.os_release = loc.os_release
         /\ (result[1].val.os_release = None) <=> ~InFile(".osrel")

C15_Witness ==
  /\ Failed
  /\ InFile(".osrel") /\ FileBytes(".osrel") # <<>>
  /\ ~osrel_lib.ok
  /\ InFile(".linux") /\ InFile(".initrd")
  /\ result = Some(Err(ErrOsRelease))
  /\ steps = SubSeq(Order, 1, 4)
  /\ loc.linux_info = NoInfo

====
